---- MODULE Spec2Model ----
(***************************************************************************)
(* Model of the jobline engine (src/src/index.ts): the two registries,     *)
(* buildJobArgs, executeOneJob and executeJobLine.                         *)
(*                                                                         *)
(* An executeJobLine call is an async function: it runs without            *)
(* interruption from its start, or from the settlement of the executor it  *)
(* awaits, up to the next `await job.executor(...)`, a return, a throw or  *)
(* process.exit().  Each such stretch is one action.                       *)
(***************************************************************************)
EXTENDS Integers, Sequences, FiniteSets, TLC

\* ------------------------------------------------------------------ bounds
MaxSteps == 3      \* longest line (number of steps)
MaxPrev == 2       \* indexes 0..MaxPrev-1 a caller-supplied journal may fill
MaxCalls == 2      \* executeJobLine calls the model provides frames for
MaxSpecs == 2      \* longest list of argument specs given to buildJobArgs

\* ------------------------------------------------------------ JS values
Keys == {"a", "b"}
Absent == "absent"            \* the property does not exist on the object
Undefined == "undefined"
EmptyObj == [k \in Keys |-> Absent]

\* o[k] in JavaScript: a missing property reads as undefined
Get(o, k) == IF o[k] = Absent THEN Undefined ELSE o[k]

\* o[k] = v
Put(o, k, v) == [o EXCEPT ![k] = v]

\* a value of type `any` as a step output: undefined, null or an object
UndefinedOut == [kind |-> "undefined", props |-> EmptyObj]
NullOut == [kind |-> "null", props |-> EmptyObj]
ObjOut(o) == [kind |-> "obj", props |-> o]
Truthy(out) == out.kind = "obj"

\* a JS array that may have holes: a function on a finite set of indexes
NoSteps == [i \in {} |-> NullOut]
Max(S) == CHOOSE x \in S : \A y \in S : y <= x
Length(arr) == IF DOMAIN arr = {} THEN 0 ELSE Max(DOMAIN arr) + 1
Has(arr, i) == i \in DOMAIN arr
Store(arr, i, v) == [x \in (DOMAIN arr) \cup {i} |-> IF x = i THEN v ELSE arr[x]]

\* ------------------------------------------------------------ buildJobArgs
\* an entry of JobLineStep.args: [key, value] (form "literal"),
\* [key, 'external', src], [key, PREVIOUS_STEP, src], [key, n, src], or
\* anything else (not an array, another length, another type): "other"
ArgSpec(key, form, n, src, val) ==
    [key |-> key, form |-> form, n |-> n, src |-> src, val |-> val]

\* the state buildJobArgs threads through args.forEach
ArgAcc(res, assignedArgs) == [res |-> res, assignedArgs |-> assignedArgs]

Assign(acc, argKey, v) ==
    ArgAcc(Put(acc.res, argKey, v), Append(acc.assignedArgs, argKey))

Includes(seq, x) == \E i \in 1..Len(seq) : seq[i] = x

\* a negative index taken as absolute
StepOutputAt_absolute(steps, index, type) ==
    IF Has(steps, type) THEN steps[type].output ELSE UndefinedOut

\* lines 172-181: the output of the step a numeric spec refers to
\* (undefined when the journal has no such entry)
StepOutputAt(steps, index, type) ==
    LET at == IF type < 0 THEN index + type ELSE type
    IN  IF Has(steps, at) THEN steps[at].output ELSE UndefinedOut

\* one callback of args.forEach
ApplyArg(acc, arg, jobArgs, options) ==
    IF arg.form = "other" \/ ~Includes(jobArgs, arg.key) THEN acc
    ELSE IF arg.form = "literal" THEN Assign(acc, arg.key, arg.val)
    ELSE IF arg.form = "external" THEN
        IF options.hasExternal
            THEN Assign(acc, arg.key, Get(options.external, arg.src))
            ELSE acc
    ELSE IF arg.form = "previous" THEN
        IF Truthy(options.previous)
            THEN Assign(acc, arg.key, Get(options.previous.props, arg.src))
            ELSE acc
    ELSE \* typeof type === 'number'
        LET stepOutput == StepOutputAt(options.steps, options.index, arg.n)
        IN  IF Truthy(stepOutput)
                THEN Assign(acc, arg.key, Get(stepOutput.props, arg.src))
                ELSE acc

RECURSIVE ForEachArg(_, _, _, _, _)
ForEachArg(acc, args, i, jobArgs, options) ==
    IF i > Len(args) THEN acc
    ELSE ForEachArg(ApplyArg(acc, args[i], jobArgs, options), args, i + 1,
                    jobArgs, options)

\* the same-name fallback: jobArgs.forEach
RECURSIVE Fallback(_, _, _, _, _)
Fallback(res, assignedArgs, jobArgs, i, external) ==
    IF i > Len(jobArgs) THEN res
    ELSE Fallback(IF Includes(assignedArgs, jobArgs[i]) THEN res
                  ELSE Put(res, jobArgs[i], Get(external, jobArgs[i])),
                  assignedArgs, jobArgs, i + 1, external)

buildJobArgs(step, job, options) ==
    IF ~step.hasArgs \/ ~job.hasArgs THEN EmptyObj
    ELSE LET acc == ForEachArg(ArgAcc(EmptyObj, <<>>), step.args, 1,
                               job.args, options)
         IN  IF options.hasExternal /\ Len(acc.assignedArgs) < Len(job.args)
                 THEN Fallback(acc.res, acc.assignedArgs, job.args, 1,
                               options.external)
                 ELSE acc.res

\* the local assignedArgs of buildJobArgs when it returns
assignedArgsOf(step, job, options) ==
    IF ~step.hasArgs \/ ~job.hasArgs THEN <<>>
    ELSE ForEachArg(ArgAcc(EmptyObj, <<>>), step.args, 1, job.args,
                    options).assignedArgs

\* ------------------------------------------------------------- registries
\* a Job; the executor is not part of the record: what an executor does is
\* chosen when it settles (Outcomes below)
Job(name, label, hasArgs, args) ==
    [name |-> name, label |-> label, hasArgs |-> hasArgs, args |-> args]

JobLineStep(name, inheritable, hasArgs, args) ==
    [name |-> name, inheritable |-> inheritable, hasArgs |-> hasArgs,
     args |-> args]

JobLine(name, hasArgs, args, steps) ==
    [name |-> name, hasArgs |-> hasArgs, args |-> args, steps |-> steps]

\* a null / undefined argument
Null == [null |-> TRUE]

\* registerJob without the check of line 69
registerJob_overwrite(jobs, job) ==
    IF job = Null THEN [map |-> jobs, threw |-> FALSE]
    ELSE [map |-> Store(jobs, job.name, job), threw |-> FALSE]

\* lines 64-73: the registry after the call and whether the call threw
registerJob(jobs, job) ==
    IF job = Null THEN [map |-> jobs, threw |-> FALSE]
    ELSE IF Has(jobs, job.name) THEN [map |-> jobs, threw |-> TRUE]
    ELSE [map |-> Store(jobs, job.name, job), threw |-> FALSE]

\* lines 75-84
registerJobLine(jobLines, jobLine) ==
    IF jobLine = Null THEN [map |-> jobLines, threw |-> FALSE]
    ELSE IF Has(jobLines, jobLine.name) THEN [map |-> jobLines, threw |-> TRUE]
    ELSE [map |-> Store(jobLines, jobLine.name, jobLine), threw |-> FALSE]

\* ------------------------------------------------------------ executeOneJob
JobJournal(name, input, output, status) ==
    [name |-> name, input |-> input, output |-> output, status |-> status]

\* executeOneJob writing into the journal passed in
JournalObject_passed(prevSteps, index) ==
    IF Has(prevSteps, index) THEN "passed" ELSE "new"

\* lines 91-103: the object that executeOneJob writes output and status
\* into: the copy made by the spread, or the new literal
JournalObject(prevSteps, index) ==
    IF Has(prevSteps, index) THEN "copy" ELSE "new"

\* lines 91-103: a shallow copy of the journal passed in, or a fresh one
newJobJournal(job, args, prevSteps, index) ==
    IF Has(prevSteps, index) THEN prevSteps[index]
    ELSE JobJournal(job.name, args, NullOut, "pending")

\* a context is an object on the heap, named by its position; 0 is null
NullCtx == 0

\* executeOneJob falling back to the object it made last, not to a new one
jobContextOf_shared(ctx, heap) ==
    IF ctx # NullCtx THEN ctx
    ELSE IF Len(heap) > 0 THEN Len(heap) ELSE 1

\* executeOneJob falling back to one object kept for all calls
jobContextOf_first(ctx, heap) ==
    IF ctx # NullCtx THEN ctx ELSE 1

\* lines 104-109: the context passed in, or a new empty object
jobContextOf(ctx, heap) ==
    IF ctx # NullCtx THEN ctx ELSE Len(heap) + 1

\* what one run of an executor does: the properties it writes into its
\* context, whether it calls done(), and whether it returns output or throws
Outcome(threw, done, output, write) ==
    [threw |-> threw, done |-> done, output |-> output, write |-> write]

\* lines 116-126: the journal after the awaited executor settled
settledJournal(jobJournal, outcome) ==
    IF outcome.threw THEN [jobJournal EXCEPT !.status = "exception"]
    ELSE [jobJournal EXCEPT !.output = outcome.output, !.status = "done"]

\* lines 127-132
JobExecuteResult(ctx, journal, output, done) ==
    [ctx |-> ctx, journal |-> journal, output |-> output, done |-> done]

executeOneJobResult(jobJournal, jobContext, outcome) ==
    JobExecuteResult(jobContext, settledJournal(jobJournal, outcome),
                     IF outcome.threw THEN UndefinedOut ELSE outcome.output,
                     outcome.done)

\* ----------------------------------------------------------- executeJobLine
JobLineJournal(name, status, input, steps) ==
    [name |-> name, status |-> status, input |-> input, steps |-> steps]

\* externalArgs taken over from options.args as a whole
CollectArgs_all(acc, lineArgs, i, callArgs) ==
    [externalArgs |-> [k \in Keys |-> IF Get(callArgs, k) = Undefined
                                        THEN Absent ELSE callArgs[k]],
     lackedArgs |-> SelectSeq(lineArgs, LAMBDA k : Get(callArgs, k) = Undefined)]

\* lines 220-229: jobLine.args.forEach, as the pair externalArgs/lackedArgs
RECURSIVE CollectArgs(_, _, _, _)
CollectArgs(acc, lineArgs, i, callArgs) ==
    IF i > Len(lineArgs) THEN acc
    ELSE LET argKey == lineArgs[i]
             value == Get(callArgs, argKey)
         IN  CollectArgs(
                 IF value = Undefined
                     THEN [acc EXCEPT !.lackedArgs = Append(@, argKey)]
                     ELSE [acc EXCEPT !.externalArgs = Put(@, argKey, value)],
                 lineArgs, i + 1, callArgs)

\* the loop without the break of lines 258-260
PreviousDone_never(previousJobLineJournal, index) == FALSE

\* lines 257-260: the resumption short-circuit
PreviousDone(previousJobLineJournal, index) ==
    /\ Has(previousJobLineJournal.steps, index)
    /\ previousJobLineJournal.steps[index].status = "done"

\* the loop test off by one
LoopBound_short(jobLine) ==
    IF Len(jobLine.steps) > 0 THEN Len(jobLine.steps) - 1 ELSE 0

\* line 255: the loop runs while index < jobLine.steps.length
LoopBound(jobLine) == Len(jobLine.steps)

\* the loop without its increment
NextIndex_same(index) == index

\* line 255: index++
NextIndex(index) == index + 1

\* the output of the first entry of the journal
PreviousOutput_first(steps) ==
    IF Has(steps, 0) THEN steps[0].output ELSE UndefinedOut

\* line 267: the output of the last entry of the journal so far
PreviousOutput(steps) ==
    IF Length(steps) > 0 /\ Has(steps, Length(steps) - 1)
        THEN steps[Length(steps) - 1].output
        ELSE UndefinedOut

\* line 273: step.inheritable !== false ? previousContext : null
ContextFor(step, previousContext) ==
    IF step.inheritable # "false" THEN previousContext ELSE NullCtx

\* the journal stored one place too far
StoreIndex_next(index) == index + 1

\* line 277: jobLineJournal.steps[index] = res.journal
StoreIndex(index) == index

\* the loop without the break of line 280
StopsAfter_ignoresStatus(res) == res.done

\* the loop without the break of line 283
StopsAfter_ignoresDone(res) == res.journal.status # "done"

\* lines 278-284: the two breaks after a step
StopsAfter(res) == res.journal.status # "done" \/ res.done

\* lines 278-281: the line status after a step
StatusAfter(status, res) ==
    IF res.journal.status # "done" THEN res.journal.status ELSE status

\* the status left as the loop set it
FinalStatus_keep(status) == status

\* lines 286-288
FinalStatus(status) == IF status = "pending" THEN "done" ELSE status

\* the frame of one executeJobLine call: its position and its locals, with
\* the locals of the executeOneJob call it awaits
IdleFrame ==
    [pc |-> "idle", error |-> "", jobLine |-> Null, externalArgs |-> EmptyObj,
     jobLineJournal |-> Null, previousJobLineJournal |-> Null,
     previousContext |-> NullCtx, index |-> 0, job |-> Null,
     args |-> EmptyObj, jobJournal |-> Null, jobContext |-> NullCtx]

\* executeJobLine never settling its promise
Return_never(f) ==
    [f EXCEPT !.pc = "loop",
              !.jobLineJournal.status = FinalStatus(@)]

\* lines 286-294: after the loop
Return(f) ==
    [f EXCEPT !.pc = "returned",
              !.jobLineJournal.status = FinalStatus(@)]

\* the loop looking the job up before it tests the previous entry
Loop_lookupFirst(f0, index, jobs, heap) ==
    LET f == [f0 EXCEPT !.index = index]
    IN  IF index >= LoopBound(f.jobLine)
        THEN Return(f)
        ELSE
          LET step == f.jobLine.steps[index + 1]
          IN  IF ~Has(jobs, step.name)
              THEN [f EXCEPT !.pc = "thrown", !.error = "JobNotFound"]
              ELSE IF PreviousDone(f.previousJobLineJournal, index)
              THEN Return(f)
              ELSE
                LET job == jobs[step.name]
                    args == buildJobArgs(step, job,
                              [hasExternal |-> TRUE,
                               external |-> f.externalArgs,
                               previous |-> PreviousOutput(f.jobLineJournal.steps),
                               steps |-> f.jobLineJournal.steps,
                               index |-> index])
                IN  [f EXCEPT
                       !.pc = "awaiting",
                       !.job = job,
                       !.args = args,
                       !.jobJournal = newJobJournal(job, args,
                                         f.previousJobLineJournal.steps, index),
                       !.jobContext = jobContextOf(
                                         ContextFor(step, f.previousContext),
                                         heap)]

\* lines 255-276: the loop from its test at `index` up to the call of the
\* step's executor, or the end of executeJobLine
Loop(f0, index, jobs, heap) ==
    LET f == [f0 EXCEPT !.index = index]
    IN  IF index >= LoopBound(f.jobLine)
           \/ PreviousDone(f.previousJobLineJournal, index)
        THEN Return(f)
        ELSE
          LET step == f.jobLine.steps[index + 1]
          IN  IF ~Has(jobs, step.name)
              THEN [f EXCEPT !.pc = "thrown", !.error = "JobNotFound"]
              ELSE
                LET job == jobs[step.name]
                    args == buildJobArgs(step, job,
                              [hasExternal |-> TRUE,
                               external |-> f.externalArgs,
                               previous |-> PreviousOutput(f.jobLineJournal.steps),
                               steps |-> f.jobLineJournal.steps,
                               index |-> index])
                IN  [f EXCEPT
                       !.pc = "awaiting",
                       !.job = job,
                       !.args = args,
                       !.jobJournal = newJobJournal(job, args,
                                         f.previousJobLineJournal.steps, index),
                       !.jobContext = jobContextOf(
                                         ContextFor(step, f.previousContext),
                                         heap)]

\* lines 206-253: from the call to the first test of the loop.  In
\* `options?.args![argKey]` the optional chain covers the whole expression:
\* without options every declared argument reads as undefined; with options
\* but without options.args the read throws a TypeError.
Prologue(ref, options, jobLines) ==
    LET jobLine == IF ref.byName
                      THEN IF Has(jobLines, ref.name) THEN jobLines[ref.name]
                           ELSE Null
                      ELSE ref.jobLine
    IN  IF jobLine = Null
        THEN [IdleFrame EXCEPT !.pc = "exited", !.error = "JobLineNotFound"]
        ELSE IF /\ jobLine.hasArgs /\ Len(jobLine.args) > 0
                /\ options.present /\ ~options.hasArgs
        THEN [IdleFrame EXCEPT !.pc = "thrown", !.error = "TypeError",
                               !.jobLine = jobLine]
        ELSE
          LET c == IF jobLine.hasArgs
                      THEN CollectArgs([externalArgs |-> EmptyObj,
                                        lackedArgs |-> <<>>],
                                       jobLine.args, 1,
                                       IF options.present THEN options.args
                                       ELSE EmptyObj)
                      ELSE [externalArgs |-> EmptyObj, lackedArgs |-> <<>>]
          IN  IF Len(c.lackedArgs) > 0
              THEN [IdleFrame EXCEPT !.pc = "exited",
                                     !.error = "MissingArguments",
                                     !.jobLine = jobLine]
              ELSE [IdleFrame EXCEPT
                      !.pc = "loop",
                      !.jobLine = jobLine,
                      !.externalArgs = c.externalArgs,
                      !.jobLineJournal =
                          JobLineJournal(jobLine.name, "pending",
                                         c.externalArgs, NoSteps),
                      !.previousJobLineJournal =
                          IF options.previousJobLineJournal # Null
                              THEN options.previousJobLineJournal
                              ELSE JobLineJournal(jobLine.name, Undefined,
                                                  c.externalArgs, NoSteps)]

\* executeJobLine from the call to its first await or its end
executeJobLine(ref, options, jobLines, jobs, heap) ==
    LET f == Prologue(ref, options, jobLines)
    IN  IF f.pc = "loop" THEN Loop(f, 0, jobs, heap) ELSE f

\* lines 277-285, then the loop again: from the settlement of the awaited
\* executor to the next await or the end of executeJobLine
Resume(f, outcome, jobs, heap) ==
    LET res == executeOneJobResult(f.jobJournal, f.jobContext, outcome)
        g == [f EXCEPT
                !.jobLineJournal.steps = Store(@, StoreIndex(f.index), res.journal),
                !.jobLineJournal.status = StatusAfter(@, res),
                !.previousJobLineJournal.steps =
                    IF JournalObject(@, f.index) = "passed"
                        THEN Store(@, f.index, res.journal) ELSE @]
    IN  IF StopsAfter(res) THEN Return(g)
        ELSE Loop(g, NextIndex(f.index), jobs, heap)

\* ------------------------------------------------------------------ inputs
Obj2(va, vb) == [k \in Keys |-> IF k = "a" THEN va ELSE vb]

JobItems ==
    { Job("j1", "first", TRUE, <<"a", "b">>),
      Job("j1", "second", TRUE, <<"a">>),
      Job("j2", "", FALSE, <<>>) }

StepItems ==
    { JobLineStep("j1", Undefined, TRUE,
                  << ArgSpec("a", "previous", 0, "a", Undefined) >>),
      JobLineStep("j2", "false", FALSE, <<>>) }

StepSeqs == UNION { [1..n -> StepItems] : n \in 0..MaxSteps }

JobLines ==
    { JobLine("L1", hasArgs, IF hasArgs THEN <<"a">> ELSE <<>>, steps) :
        hasArgs \in BOOLEAN, steps \in StepSeqs }

\* the lines callers register, two of them under the same name
JobLineItems ==
    { jl \in JobLines : /\ Len(jl.steps) = MaxSteps
                        /\ \A i \in 1..Len(jl.steps) :
                              jl.steps[i].name = jl.steps[1].name
                        /\ ~jl.hasArgs }

\* executeJobLine's first parameter: a name or a JobLine
JobLineRefs ==
    { [byName |-> TRUE, name |-> "L1", jobLine |-> Null] }
    \cup { [byName |-> FALSE, name |-> "", jobLine |-> jl] : jl \in JobLines }

\* entries of a journal handed in for resumption
PrevEntries ==
    { JobJournal("j1", Obj2("v1", Absent), ObjOut(Obj2("v1", Absent)), "done"),
      JobJournal("j1", EmptyObj, NullOut, "exception") }

PrevSteps == UNION { [D -> PrevEntries] : D \in SUBSET (0..(MaxPrev - 1)) }

PrevJournals == { JobLineJournal("L1", "exception", EmptyObj, steps) :
                    steps \in PrevSteps }

CallArgs == { Obj2("c1", "x1"), Obj2(Absent, "x1") }

\* executeJobLine's second parameter: absent, or present with or without
\* args and previousJobLineJournal
NoOptions ==
    [present |-> FALSE, hasArgs |-> FALSE, args |-> EmptyObj,
     previousJobLineJournal |-> Null]

Options ==
    {NoOptions}
    \cup { [present |-> TRUE, hasArgs |-> FALSE, args |-> EmptyObj,
            previousJobLineJournal |-> p] : p \in PrevJournals \cup {Null} }
    \cup { [present |-> TRUE, hasArgs |-> TRUE, args |-> a,
            previousJobLineJournal |-> p] :
              a \in CallArgs, p \in PrevJournals \cup {Null} }

\* what the executors of the model do
Outcomes ==
    { Outcome(FALSE, FALSE, ObjOut(Obj2("v1", Absent)), Obj2("v1", Absent)),
      Outcome(FALSE, FALSE, UndefinedOut, EmptyObj),
      Outcome(FALSE, TRUE, ObjOut(Obj2("v1", Absent)), EmptyObj),
      Outcome(TRUE, FALSE, UndefinedOut, Obj2("v1", Absent)),
      Outcome(TRUE, TRUE, UndefinedOut, EmptyObj) }

\* ------------------------------------------------------------------- state
VARIABLES
    jobs,        \* the job registry (line 61)
    jobLines,    \* the job line registry (line 62)
    lastReg,     \* the last registerJob / registerJobLine call and its result
    active,      \* the executeJobLine calls the program makes
    frame,       \* frame[c]: the locals of call c
    heap,        \* the context objects created so far
    trace,       \* trace[c]: the executor invocations and settlements of c
    resolution,  \* a buildJobArgs call on its own: its arguments and result
    passed       \* passed[c]: options.args as the caller of c passed it

vars ==
    <<jobs, jobLines, lastReg, active, frame, heap, trace, resolution, passed>>

Calls == 1..MaxCalls

NoTrace ==
    [invoked |-> <<>>, settled |-> <<>>, running |-> {},
     previousJobLineJournal |-> Null]

NoResolution == [called |-> FALSE]

Init ==
    /\ jobs = [n \in {} |-> Null]
    /\ jobLines = [n \in {} |-> Null]
    /\ lastReg = [op |-> "", item |-> Null, threw |-> FALSE]
    /\ active = {1}
    /\ frame = [c \in Calls |-> IdleFrame]
    /\ heap = <<>>
    /\ trace = [c \in Calls |-> NoTrace]
    /\ resolution = NoResolution
    /\ passed = [c \in Calls |-> EmptyObj]

\* process.exit() ends the program
Exited == \E c \in Calls : frame[c].pc = "exited"

RegisterJob(job) ==
    /\ ~Exited
    /\ LET r == registerJob(jobs, job)
       IN  jobs' = r.map
    /\ UNCHANGED <<jobLines, lastReg, active, frame, heap, trace, resolution, passed>>

RegisterJobLine(jobLine) ==
    /\ ~Exited
    /\ LET r == registerJobLine(jobLines, jobLine)
       IN  jobLines' = r.map
    /\ UNCHANGED <<jobs, lastReg, active, frame, heap, trace, resolution, passed>>

\* the executor of the step that frame g awaits was called with g's
\* context; `objects` is the heap before the call
Called(c, g, objects) ==
    LET h == IF g.jobContext > Len(objects) THEN Append(objects, EmptyObj)
             ELSE objects
    IN  [heap |-> h,
         invoked |-> Append(trace[c].invoked,
                            [index |-> g.index,
                             step |-> g.jobLine.steps[g.index + 1],
                             args |-> g.args,
                             jobContext |-> g.jobContext,
                             ctx |-> h[g.jobContext]])]

\* a call of executeJobLine, up to its first await or its end; the trace
\* keeps the previous journal as the caller passed it
Start(c, ref, options) ==
    LET g == executeJobLine(ref, options, jobLines, jobs, heap)
        given == [trace[c] EXCEPT
                    !.previousJobLineJournal = options.previousJobLineJournal]
    IN  /\ frame' = [frame EXCEPT ![c] = g]
        /\ IF g.pc = "awaiting"
           THEN /\ heap' = Called(c, g, heap).heap
                /\ trace' = [trace EXCEPT
                      ![c] = [given EXCEPT
                                !.invoked = Called(c, g, heap).invoked,
                                !.running = @ \cup {g.index}]]
           ELSE /\ heap' = heap
                /\ trace' = [trace EXCEPT ![c] = given]

ExecuteJobLine(c) ==
    /\ ~Exited
    /\ c \in active
    /\ frame[c].pc = "idle"
    /\ \E ref \in JobLineRefs, options \in Options : Start(c, ref, options)
    /\ UNCHANGED <<jobs, jobLines, lastReg, active, resolution, passed>>

\* the executor wrote `write` into the context object o
Merge(o, write) == [k \in Keys |-> IF write[k] # Absent THEN write[k] ELSE o[k]]

\* the executor call awaits settles: executeOneJob returns and
\* executeJobLine runs on to its next await or its end
Settle(c, outcome) ==
    LET f == frame[c]
        written == [heap EXCEPT ![f.jobContext] = Merge(@, outcome.write)]
        res == executeOneJobResult(f.jobJournal, f.jobContext, outcome)
        g == Resume(f, outcome, jobs, written)
        settled == Append(trace[c].settled,
                          [index |-> f.index,
                           threw |-> outcome.threw,
                           done |-> outcome.done,
                           jobContext |-> res.ctx,
                           journal |-> res.journal])
    IN  /\ frame' = [frame EXCEPT ![c] = g]
        /\ IF g.pc = "awaiting"
           THEN /\ heap' = Called(c, g, written).heap
                /\ trace' = [trace EXCEPT
                      ![c].settled = settled,
                      ![c].invoked = Called(c, g, written).invoked,
                      ![c].running = (@ \ {f.index}) \cup {g.index}]
           ELSE /\ heap' = written
                /\ trace' = [trace EXCEPT
                      ![c].settled = settled,
                      ![c].running = @ \ {f.index}]

ExecutorSettles(c) ==
    /\ ~Exited
    /\ frame[c].pc = "awaiting"
    /\ \E outcome \in Outcomes : Settle(c, outcome)
    /\ UNCHANGED <<jobs, jobLines, lastReg, active, resolution, passed>>

Next ==
    \/ \E job \in JobItems \cup {Null} : RegisterJob(job)
    \/ \E jobLine \in JobLineItems \cup {Null} : RegisterJobLine(jobLine)
    \/ \E c \in Calls : ExecuteJobLine(c)
    \/ \E c \in Calls : ExecutorSettles(c)

Spec == Init /\ [][Next]_vars

\* ------------------------------------------- the registries on their own
\* a registerJob call whose result the caller observes
RegisterJobCall(job) ==
    /\ LET r == registerJob(jobs, job)
       IN  /\ jobs' = r.map
           /\ lastReg' = [op |-> "registerJob", item |-> job, threw |-> r.threw]
    /\ UNCHANGED <<jobLines, active, frame, heap, trace, resolution, passed>>

RegisterJobLineCall(jobLine) ==
    /\ LET r == registerJobLine(jobLines, jobLine)
       IN  /\ jobLines' = r.map
           /\ lastReg' = [op |-> "registerJobLine", item |-> jobLine,
                          threw |-> r.threw]
    /\ UNCHANGED <<jobs, active, frame, heap, trace, resolution, passed>>

NextRegistry ==
    \/ \E job \in JobItems \cup {Null} : RegisterJobCall(job)
    \/ \E jobLine \in JobLineItems \cup {Null} : RegisterJobLineCall(jobLine)

SpecRegistry == Init /\ [][NextRegistry]_vars

\* ------------------------------------------------- buildJobArgs on its own
\* the argument specs a step may carry: every form, for both parameters
ArgSpecs ==
    { ArgSpec(key, "literal", 0, "a", "l1") : key \in Keys }
    \cup { ArgSpec(key, "external", 0, "b", Undefined) : key \in Keys }
    \cup { ArgSpec("a", "previous", 0, "a", Undefined),
           ArgSpec("a", "index", -1, "a", Undefined),
           ArgSpec("b", "index", -2, "a", Undefined),
           ArgSpec("a", "index", 0, "a", Undefined),
           ArgSpec("b", "index", 1, "b", Undefined),
           ArgSpec("a", "other", 0, "a", Undefined) }

ArgLists == UNION { [1..n -> ArgSpecs] : n \in 0..MaxSpecs }

\* steps with args absent, empty, or a list of specs
ArgSteps ==
    { JobLineStep("j1", Undefined, FALSE, <<>>) }
    \cup { JobLineStep("j1", Undefined, TRUE, args) : args \in ArgLists }

\* jobs with args absent, empty, or naming one or both parameters
ArgJobs ==
    { Job("j1", "", FALSE, <<>>) }
    \cup { Job("j1", "", TRUE, args) : args \in {<<>>, <<"a">>, <<"a", "b">>} }

\* the journals of the steps run so far, as buildJobArgs may find them
ArgJournals ==
    { NoSteps,
      Store(NoSteps, 0,
            JobJournal("j1", EmptyObj, ObjOut(Obj2("o1", Absent)), "done")),
      Store(Store(NoSteps, 0,
                  JobJournal("j1", EmptyObj, ObjOut(Obj2("o1", "o2")), "done")),
            1, JobJournal("j2", EmptyObj, UndefinedOut, "done")) }

\* the options of buildJobArgs: external and previous present or not
ArgOptions ==
    { [hasExternal |-> he, external |-> Obj2("e1", "e2"), previous |-> pr,
       steps |-> st, index |-> ix] :
        he \in BOOLEAN, pr \in {UndefinedOut, ObjOut(Obj2("p1", Absent))},
        st \in ArgJournals, ix \in {0, 1, 2} }

BuildJobArgs ==
    /\ ~resolution.called
    /\ \E step \in ArgSteps, job \in ArgJobs, options \in ArgOptions :
          resolution' = [called |-> TRUE, step |-> step, job |-> job,
                         options |-> options,
                         assignedArgs |-> assignedArgsOf(step, job, options),
                         res |-> buildJobArgs(step, job, options)]
    /\ UNCHANGED <<jobs, jobLines, lastReg, active, frame, heap, trace, passed>>

NextArgs == BuildJobArgs

SpecArgs == Init /\ [][NextArgs]_vars

\* ------------------------------------------------ calls in flight together
\* executors whose result depends only on the context and the arguments
\* they are given: j1 records its context in the context and returns what it
\* was given; j2 throws when it finds a context that was used
Executor(job, ctx, args) ==
    IF job.name = "j1"
        THEN Outcome(FALSE, FALSE, ObjOut(Obj2(args["a"], ctx["b"])),
                     Obj2(Absent, "w1"))
        ELSE Outcome(ctx["b"] # Absent, FALSE, UndefinedOut, Obj2("w2", "w2"))

\* lines that declare the argument a, of two steps, the second of which
\* takes its argument from the first
ConcRefs ==
    { ref \in JobLineRefs : /\ ~ref.byName
                            /\ ref.jobLine.hasArgs
                            /\ Len(ref.jobLine.steps) = 2
                            /\ ref.jobLine.steps[2].name = "j1" }

\* calls with their argument, with or without a previous journal whose
\* entry 0 failed
ConcOptions ==
    { o \in Options :
        /\ o.present /\ o.hasArgs /\ o.args["a"] # Absent
        /\ \/ o.previousJobLineJournal = Null
           \/ /\ DOMAIN o.previousJobLineJournal.steps = {0}
              /\ o.previousJobLineJournal.steps[0].status = "exception" }

\* the jobs are registered before the calls, and none is registered later
InitConc ==
    /\ jobs = [n \in {"j1", "j2"} |->
                  IF n = "j1" THEN Job("j1", "first", TRUE, <<"a", "b">>)
                  ELSE Job("j2", "", FALSE, <<>>)]
    /\ jobLines = [n \in {} |-> Null]
    /\ lastReg = [op |-> "", item |-> Null, threw |-> FALSE]
    /\ active = Calls
    /\ frame = [c \in Calls |-> IdleFrame]
    /\ heap = <<>>
    /\ trace = [c \in Calls |-> NoTrace]
    /\ resolution = NoResolution
    /\ passed = [c \in Calls |-> EmptyObj]

ExecuteJobLineConc(c) ==
    /\ c \in active
    /\ frame[c].pc = "idle"
    /\ \E ref \in ConcRefs, options \in ConcOptions :
          /\ Start(c, ref, options)
          /\ passed' = [passed EXCEPT ![c] = options.args]
    /\ UNCHANGED <<jobs, jobLines, lastReg, active, resolution>>

ExecutorCompletes(c) ==
    /\ frame[c].pc = "awaiting"
    /\ Settle(c, Executor(frame[c].job, heap[frame[c].jobContext],
                          frame[c].args))
    /\ UNCHANGED <<jobs, jobLines, lastReg, active, resolution, passed>>

NextConc ==
    \/ \E c \in Calls : ExecuteJobLineConc(c)
    \/ \E c \in Calls : ExecutorCompletes(c)

SpecConc == InitConc /\ [][NextConc]_vars

\* ------------------------------------------ executors that all complete
\* calls with a JobLine of the greatest length that starts with j1 and
\* declares the argument a, and with arguments
LiveRefs ==
    { ref \in JobLineRefs : /\ ~ref.byName
                            /\ ref.jobLine.hasArgs
                            /\ Len(ref.jobLine.steps) = MaxSteps
                            /\ ref.jobLine.steps[1].name = "j1" }

\* calls with the argument and without a previous journal
LiveOptions == { o \in ConcOptions : o.previousJobLineJournal = Null }

ExecuteJobLineLive(c) ==
    /\ ~Exited
    /\ c \in active
    /\ frame[c].pc = "idle"
    /\ \E ref \in LiveRefs, options \in LiveOptions : Start(c, ref, options)
    /\ UNCHANGED <<jobs, jobLines, lastReg, active, resolution, passed>>

NextLive ==
    \/ \E job \in JobItems \cup {Null} : RegisterJob(job)
    \/ \E c \in Calls : ExecuteJobLineLive(c)
    \/ \E c \in Calls : ExecutorSettles(c)

\* every executor that was called returns or throws in the end
SpecLive ==
    Init /\ [][NextLive]_vars /\ \A c \in Calls : WF_vars(ExecutorSettles(c))

\* ------------------------------------------ calls with their arguments
\* the options of a call: any arguments, and no previous journal or one
\* with the entry 0
PassedOptions ==
    { o \in Options : \/ o.previousJobLineJournal = Null
                      \/ DOMAIN o.previousJobLineJournal.steps = {0} }

\* an executeJobLine call of which options.args is kept as it was passed
ExecuteJobLinePassed(c) ==
    /\ ~Exited
    /\ c \in active
    /\ frame[c].pc = "idle"
    /\ \E ref \in JobLineRefs, options \in PassedOptions :
          /\ Start(c, ref, options)
          /\ passed' = [passed EXCEPT ![c] = options.args]
    /\ UNCHANGED <<jobs, jobLines, lastReg, active, resolution>>

NextPassed ==
    \/ \E job \in JobItems \cup {Null} : RegisterJob(job)
    \/ \E jobLine \in JobLineItems \cup {Null} : RegisterJobLine(jobLine)
    \/ \E c \in Calls : ExecuteJobLinePassed(c)
    \/ \E c \in Calls : ExecutorSettles(c)

SpecPassed == Init /\ [][NextPassed]_vars

\* ------------------------------------------------------------ properties
\* call c got past the prologue: it has a line and a journal
InLoop(c) == frame[c].jobLineJournal # Null
Returned(c) == frame[c].pc = "returned"
StepCount(c) == Len(frame[c].jobLine.steps)
Entries(c) == frame[c].jobLineJournal.steps
Invoked(c) == trace[c].invoked
Settled(c) == trace[c].settled

\* the journal handed in for resumption has a done entry at index i
DoneEntryAt(c, i) ==
    /\ i \in DOMAIN frame[c].previousJobLineJournal.steps
    /\ frame[c].previousJobLineJournal.steps[i].status = "done"

\* C1: when the executor of step k throws after steps 0..k-1 completed
\* normally without done(), the call returns (it does not throw) a journal
\* with exactly the entries 0..k, entries 0..k-1 done, entry k exception,
\* line status exception, and no executor of a later step is invoked.
C1_StepFailureStopsLine ==
    \A c \in Calls : \A n \in 1..Len(Settled(c)) :
        LET k == Settled(c)[n].index
        IN  ( /\ Settled(c)[n].threw
              /\ k = n - 1
              /\ \A m \in 1..(n - 1) : /\ Settled(c)[m].index = m - 1
                                       /\ ~Settled(c)[m].threw
                                       /\ ~Settled(c)[m].done )
            => /\ Returned(c)
               /\ DOMAIN Entries(c) = 0..k
               /\ \A i \in 0..(k - 1) : Entries(c)[i].status = "done"
               /\ Entries(c)[k].status = "exception"
               /\ frame[c].jobLineJournal.status = "exception"
               /\ \A i \in 1..Len(Invoked(c)) : Invoked(c)[i].index <= k

\* the second step of a three-step line threw after the first completed
C1_Witness ==
    \E c \in Calls :
        /\ Returned(c)
        /\ StepCount(c) = 3
        /\ Len(Settled(c)) = 2
        /\ ~Settled(c)[1].threw /\ ~Settled(c)[1].done
        /\ Settled(c)[2].threw

\* C2: every step at index >= 1 whose inheritable flag is not false is run
\* with the context object the previously executed step returned, so it
\* sees what that step's executor wrote.
C2_ContextIsInherited ==
    \A c \in Calls : \A i \in 2..Len(Invoked(c)) :
        (Invoked(c)[i].index >= 1 /\ Invoked(c)[i].step.inheritable # "false")
        => /\ Invoked(c)[i].jobContext = Settled(c)[i - 1].jobContext
           /\ Invoked(c)[i].ctx = heap[Settled(c)[i - 1].jobContext]

\* C3: a step whose inheritable flag is false is run with a new empty
\* context: not the object of any earlier step, and with nothing in it.
C3_NonInheritingStepGetsFreshContext ==
    \A c \in Calls : \A i \in 1..Len(Invoked(c)) :
        Invoked(c)[i].step.inheritable = "false"
        => /\ Invoked(c)[i].ctx = EmptyObj
           /\ \A j \in 1..(i - 1) :
                 Invoked(c)[j].jobContext # Invoked(c)[i].jobContext

\* a step with inheritable false ran after a step that wrote into its context
C3_Witness ==
    \E c \in Calls : \E i \in 2..Len(Invoked(c)) :
        /\ Invoked(c)[i].step.inheritable = "false"
        /\ heap[Invoked(c)[i - 1].jobContext] # EmptyObj

\* C4: an index i at which the previous journal has a done entry stops the
\* line: no executor of a step with index >= i is invoked, and when the
\* loop reaches i the call returns a journal with exactly i entries.
C4_DoneEntryStopsLine ==
    \A c \in Calls : InLoop(c) =>
        \A i \in 0..(StepCount(c) - 1) :
            DoneEntryAt(c, i)
            => /\ \A n \in 1..Len(Invoked(c)) : Invoked(c)[n].index < i
               /\ (Returned(c) /\ frame[c].index = i)
                  => Cardinality(DOMAIN Entries(c)) = i

\* the loop ran step 0 and stopped at a done entry at index 1
C4_Witness ==
    \E c \in Calls :
        /\ Returned(c)
        /\ frame[c].index = 1
        /\ StepCount(c) >= 2
        /\ DoneEntryAt(c, 1)
        /\ Len(Settled(c)) = 1

\* C5: the executors of one call are invoked in strictly increasing step
\* index, each at most once, never two at a time, and an executor is
\* invoked only after the previous one settled and its entry was stored.
C5_StepsRunInOrderOneAtATime ==
    \A c \in Calls :
        /\ \A i \in 1..(Len(Invoked(c)) - 1) :
              Invoked(c)[i].index < Invoked(c)[i + 1].index
        /\ Cardinality(trace[c].running) <= 1
        /\ Len(Settled(c)) <= Len(Invoked(c))
        /\ Len(Invoked(c)) <= Len(Settled(c)) + 1
        /\ \A i \in 1..Len(Settled(c)) :
              Settled(c)[i].index = Invoked(c)[i].index
        /\ \A i \in 2..Len(Invoked(c)) :
              /\ Invoked(c)[i - 1].index \in DOMAIN Entries(c)
              /\ Entries(c)[Invoked(c)[i - 1].index] = Settled(c)[i - 1].journal

\* three executors ran in one call
C5_Witness ==
    \E c \in Calls : /\ Len(Settled(c)) = 3
                     /\ Settled(c)[3].index = 2

\* the effect the claim gives a registration call on a registry
RegistrationEffect(before, after, item, threw) ==
    IF item = Null THEN after = before /\ ~threw
    ELSE IF item.name \in DOMAIN before THEN after = before /\ threw
    ELSE /\ ~threw
         /\ DOMAIN after = DOMAIN before \cup {item.name}
         /\ after[item.name] = item
         /\ \A n \in DOMAIN before : after[n] = before[n]

\* C6: a name keeps the first item registered under it: a registration
\* under a name already present throws and changes nothing, a null item
\* changes nothing and throws nothing, no entry is removed or replaced.
C6_RegistriesKeepFirstItem ==
    [][ /\ \A n \in DOMAIN jobs : n \in DOMAIN jobs' /\ jobs'[n] = jobs[n]
        /\ \A n \in DOMAIN jobLines :
              n \in DOMAIN jobLines' /\ jobLines'[n] = jobLines[n]
        /\ lastReg'.op = "registerJob"
           => /\ jobLines' = jobLines
              /\ RegistrationEffect(jobs, jobs', lastReg'.item, lastReg'.threw)
        /\ lastReg'.op = "registerJobLine"
           => /\ jobs' = jobs
              /\ RegistrationEffect(jobLines, jobLines', lastReg'.item,
                                    lastReg'.threw) ]_vars

\* a second job was registered under a taken name and was refused
C6_Witness ==
    /\ lastReg.op = "registerJob"
    /\ lastReg.threw
    /\ jobs[lastReg.item.name] # lastReg.item

\* C7: the entries of the line journal are at the indexes 0..m-1 for some
\* m up to the number of steps, and entry i is the journal the run of
\* step i produced.
C7_EntriesHaveNoGaps ==
    \A c \in Calls : InLoop(c) =>
        /\ \E m \in 0..StepCount(c) : DOMAIN Entries(c) = 0..(m - 1)
        /\ \A i \in DOMAIN Entries(c) :
              \E n \in 1..Len(Settled(c)) :
                  /\ Settled(c)[n].index = i
                  /\ Invoked(c)[n].step = frame[c].jobLine.steps[i + 1]
                  /\ Settled(c)[n].journal = Entries(c)[i]

\* a resumed call that re-ran a failed step 0 and then ran step 1
C7_Witness ==
    \E c \in Calls :
        /\ Returned(c)
        /\ 0 \in DOMAIN frame[c].previousJobLineJournal.steps
        /\ DOMAIN Entries(c) = {0, 1}
        /\ StepCount(c) = 3

\* a status changes from pending to exception or done, or not at all
LegalStatusChange(old, new) ==
    old = new \/ (old = "pending" /\ new \in {"exception", "done"})

\* C8: the status of every step journal and line journal the engine
\* creates only changes from pending to exception or to done, and never
\* again, also for step journals started from a previous entry.
C8_StatusOnlyLeavesPending ==
    [][ \A c \in Calls :
          /\ (InLoop(c) /\ frame'[c].jobLineJournal # Null)
             => /\ LegalStatusChange(frame[c].jobLineJournal.status,
                                     frame'[c].jobLineJournal.status)
                /\ \A i \in DOMAIN Entries(c) :
                      /\ i \in DOMAIN frame'[c].jobLineJournal.steps
                      /\ frame'[c].jobLineJournal.steps[i].status
                            = Entries(c)[i].status
          /\ (frame[c].pc = "awaiting" /\ trace'[c].settled # trace[c].settled)
             => LegalStatusChange(
                    frame[c].jobJournal.status,
                    trace'[c].settled[Len(trace'[c].settled)].journal.status)
      ]_vars

\* C9: a step that calls done() and completes normally is recorded as
\* done, no later executor is invoked, and the line returns status done.
C9_DoneEndsLineAsDone ==
    \A c \in Calls : \A n \in 1..Len(Settled(c)) :
        (Settled(c)[n].done /\ ~Settled(c)[n].threw)
        => /\ Returned(c)
           /\ Settled(c)[n].index \in DOMAIN Entries(c)
           /\ Entries(c)[Settled(c)[n].index].status = "done"
           /\ \A i \in 1..Len(Invoked(c)) :
                 Invoked(c)[i].index <= Settled(c)[n].index
           /\ frame[c].jobLineJournal.status = "done"

\* the first step of a longer line called done()
C9_Witness ==
    \E c \in Calls :
        /\ Returned(c)
        /\ Len(Settled(c)) = 1
        /\ Settled(c)[1].done /\ ~Settled(c)[1].threw
        /\ StepCount(c) > 1

\* C10: a call that returns fewer entries than the line has steps stopped
\* because the last executed step called done(), or ended with a status
\* other than done, or the previous journal has a done entry at the index
\* equal to the number of returned entries.
C10_EarlyStopHasACause ==
    \A c \in Calls :
        (Returned(c) /\ Cardinality(DOMAIN Entries(c)) < StepCount(c))
        => LET last == Settled(c)[Len(Settled(c))]
           IN  \/ Len(Settled(c)) > 0 /\ last.done
               \/ Len(Settled(c)) > 0 /\ last.journal.status # "done"
               \/ DoneEntryAt(c, Cardinality(DOMAIN Entries(c)))

\* a call stopped at a done entry of the previous journal before any step
C10_Witness ==
    \E c \in Calls :
        /\ Returned(c)
        /\ StepCount(c) = 3
        /\ Entries(c) = NoSteps
        /\ DoneEntryAt(c, 0)

\* the output a numeric spec with index n refers to at current index c, if
\* the journal has that entry and its output is an object
RefExists(steps, c, n) ==
    LET at == IF n >= 0 THEN n ELSE c + n
    IN  at \in DOMAIN steps /\ steps[at].output.kind = "obj"

RefProps(steps, c, n) ==
    steps[IF n >= 0 THEN n ELSE c + n].output.props

\* the spec finds its source, so that it assigns its parameter
Effective(spec, options) ==
    \/ spec.form = "literal"
    \/ spec.form = "external" /\ options.hasExternal
    \/ spec.form = "previous" /\ options.previous.kind = "obj"
    \/ spec.form = "index" /\ RefExists(options.steps, options.index, spec.n)

\* the specs of the resolved step that name parameter p
SpecsFor(p) ==
    IF resolution.step.hasArgs
        THEN { i \in 1..Len(resolution.step.args) :
                  resolution.step.args[i].key = p }
        ELSE {}

FormalArgs ==
    IF resolution.job.hasArgs
        THEN { resolution.job.args[i] : i \in 1..Len(resolution.job.args) }
        ELSE {}

\* C11: whatever the spec list (absent, empty, several specs for one
\* parameter) and the formal parameters, when externalArgs is provided every
\* formal parameter that no spec explicitly assigned reads in the result as
\* externalArgs[parameterName].
C11_UnassignedParametersFallBack ==
    (resolution.called /\ resolution.options.hasExternal)
    => \A p \in FormalArgs :
          (\A i \in SpecsFor(p) :
              ~Effective(resolution.step.args[i], resolution.options))
          => Get(resolution.res, p) = Get(resolution.options.external, p)

\* C12: a numeric spec [param, n, key] for a formal parameter refers to
\* steps[n] when n >= 0 and to steps[c+n] when n < 0; if that entry exists
\* with a truthy output it assigns output[key] to param, otherwise it
\* assigns nothing.  (Read off a parameter that has this one spec only.)
C12_NumericSpecReadsStepOutput ==
    resolution.called
    => \A p \in FormalArgs : \A i \in SpecsFor(p) :
          LET spec == resolution.step.args[i]
              o == resolution.options
          IN  (SpecsFor(p) = {i} /\ spec.form = "index")
              => IF RefExists(o.steps, o.index, spec.n)
                 THEN /\ resolution.res[p]
                           = Get(RefProps(o.steps, o.index, spec.n), spec.src)
                      /\ Includes(resolution.assignedArgs, p)
                 ELSE /\ ~Includes(resolution.assignedArgs, p)
                      /\ resolution.res[p] \in
                            {Absent, Get(o.external, p)}
                      /\ ~o.hasExternal => resolution.res[p] = Absent

\* a relative spec at index 2 read the output of step 0
C12_Witness ==
    /\ resolution.called
    /\ resolution.options.index = 2
    /\ resolution.job.hasArgs /\ Includes(resolution.job.args, "b")
    /\ resolution.step.hasArgs
    /\ resolution.step.args = << ArgSpec("b", "index", -2, "a", Undefined) >>
    /\ resolution.res["b"] = "o1"

\* the names the line of call c declares
Declared(c) ==
    IF frame[c].jobLine.hasArgs
        THEN { frame[c].jobLine.args[i] : i \in 1..Len(frame[c].jobLine.args) }
        ELSE {}

\* the value v is nowhere in the object o
NotIn(v, o) == \A k \in Keys : o[k] # v

\* C13: externalArgs, which is the journal's input, holds exactly the
\* declared names with the caller's values; a value the caller passes under
\* an undeclared name is in no journal input and in no step's resolved
\* arguments.  (The caller's values are distinct from every other value of
\* the model, and nothing else of a call depends on options.args.)
C13_UndeclaredArgsStayOut ==
    \A c \in Calls : InLoop(c) =>
        /\ frame[c].externalArgs =
              [k \in Keys |-> IF k \in Declared(c) THEN passed[c][k]
                              ELSE Absent]
        /\ frame[c].jobLineJournal.input = frame[c].externalArgs
        /\ \A k \in Keys \ Declared(c) :
              passed[c][k] # Absent
              => /\ NotIn(passed[c][k], frame[c].jobLineJournal.input)
                 /\ \A n \in 1..Len(Invoked(c)) :
                       NotIn(passed[c][k], Invoked(c)[n].args)
                 /\ \A i \in DOMAIN Entries(c) :
                       NotIn(passed[c][k], Entries(c)[i].input)

\* a step took the declared a from the caller, who also passed b
C13_Witness ==
    \E c \in Calls :
        /\ InLoop(c)
        /\ Declared(c) = {"a"}
        /\ passed[c]["b"] = "x1"
        /\ \E n \in 1..Len(Invoked(c)) : Invoked(c)[n].args["a"] = "c1"

\* C14: the entry an executor run leaves at its index has as input the
\* argument map resolved for that run, also when the previous journal had
\* an entry at that index.
C14_EntryInputIsThisRunsInput ==
    \A c \in Calls : \A n \in 1..Len(Settled(c)) :
        Settled(c)[n].journal.input = Invoked(c)[n].args

\* the greatest index of a non-empty sparse array
LastIndex(steps) == CHOOSE i \in DOMAIN steps : \A j \in DOMAIN steps : j <= i

\* C15: in a returned journal every entry but the last is done, the line is
\* exception exactly when its last entry is exception, and done otherwise
\* (also with no entries); it is never pending.
C15_ReturnedStatusFollowsLastEntry ==
    \A c \in Calls : Returned(c) =>
        LET steps == Entries(c)
            status == frame[c].jobLineJournal.status
            lastFailed == /\ DOMAIN steps # {}
                          /\ steps[LastIndex(steps)].status = "exception"
        IN  /\ \A i \in DOMAIN steps :
                  i # LastIndex(steps) => steps[i].status = "done"
            /\ status = "exception" <=> lastFailed
            /\ ~lastFailed => status = "done"
            /\ status # "pending"

\* a call returned exception after a done entry and a failed one
C15_Witness ==
    \E c \in Calls :
        /\ Returned(c)
        /\ DOMAIN Entries(c) = {0, 1}
        /\ Entries(c)[0].status = "done"
        /\ Entries(c)[1].status = "exception"
        /\ frame[c].jobLineJournal.status = "exception"

\* C16: the previous journal the caller passed is, throughout and after the
\* call, what it was when the call was made: its name, input, status and
\* steps, and each entry's name, input, output and status.
C16_PreviousJournalIsNotModified ==
    \A c \in Calls :
        (InLoop(c) /\ trace[c].previousJobLineJournal # Null)
        => frame[c].previousJobLineJournal = trace[c].previousJobLineJournal

\* a step whose previous entry was an exception was run again and is done
\* in the returned journal
C16_Witness ==
    \E c \in Calls :
        /\ Returned(c)
        /\ trace[c].previousJobLineJournal # Null
        /\ 0 \in DOMAIN trace[c].previousJobLineJournal.steps
        /\ trace[c].previousJobLineJournal.steps[0].status = "exception"
        /\ 0 \in DOMAIN Entries(c)
        /\ Entries(c)[0].status = "done"

\* C17: after a move of call c, the loop has stopped at its index (no step
\* left, a done entry of the previous journal there, or the last executor
\* threw or called done) or it has reached the step at that index.  The
\* call is thrown with JobNotFound exactly when it reached a step whose job
\* is not registered; then the executors of all the steps before it ran and
\* settled in this call, and no journal is returned.  A call that stopped
\* has returned, whatever the jobs of its remaining steps.
C17_MissingJobThrowsWhenReached ==
    [][\A c \in Calls :
          (frame'[c] # frame[c] /\ frame'[c].jobLineJournal # Null) =>
            LET f == frame'[c]
                i == f.index
                settled == trace'[c].settled
                stopped ==
                    \/ i >= Len(f.jobLine.steps)
                    \/ /\ i \in DOMAIN f.previousJobLineJournal.steps
                       /\ f.previousJobLineJournal.steps[i].status = "done"
                    \/ /\ Len(settled) > 0
                       /\ \/ settled[Len(settled)].threw
                          \/ settled[Len(settled)].done
                reachedMissing ==
                    /\ ~stopped
                    /\ f.jobLine.steps[i + 1].name \notin DOMAIN jobs'
            IN  /\ reachedMissing <=> f.pc = "thrown"
                /\ f.pc = "thrown" =>
                      /\ f.error = "JobNotFound"
                      /\ Len(settled) = i
                      /\ \A n \in 1..i : /\ settled[n].index = n - 1
                                         /\ ~settled[n].threw
                                         /\ ~settled[n].done
                /\ stopped => f.pc = "returned"]_vars

\* a call threw JobNotFound at step 1 after the executor of step 0 ran
C17_Witness ==
    \E c \in Calls :
        /\ frame[c].pc = "thrown"
        /\ frame[c].error = "JobNotFound"
        /\ frame[c].index = 1
        /\ Len(Settled(c)) = 1

\* the options buildJobArgs gets at the step call c awaits (lines 265-270)
OptionsAt(c) ==
    [hasExternal |-> TRUE,
     external |-> frame[c].externalArgs,
     previous |-> PreviousOutput(Entries(c)),
     steps |-> Entries(c),
     index |-> frame[c].index]

\* a step and a job with the one spec and the one formal parameter
OneSpecStep(spec) == JobLineStep("j1", Undefined, TRUE, <<spec>>)
OneArgJob(p) == Job("j1", "", TRUE, <<p>>)

\* the step args with every previous-step spec as a [-1] spec
AsRelative(step) ==
    IF ~step.hasArgs THEN step
    ELSE [step EXCEPT !.args =
            [n \in 1..Len(step.args) |->
                IF step.args[n].form = "previous"
                    THEN [step.args[n] EXCEPT !.form = "index", !.n = -1]
                    ELSE step.args[n]]]

\* C18: at every step a call resolves, a previous-step spec and a [-1] spec
\* for the same parameter and key give the same arguments: both assign
\* steps[index-1].output[key] when that entry exists with a truthy output,
\* and neither assigns otherwise; the arguments the step was called with
\* are those of its specs read as [-1] specs.
C18_PreviousStepIsRelativeMinusOne ==
    \A c \in Calls : frame[c].pc = "awaiting" =>
        LET i == frame[c].index
            steps == Entries(c)
            exists == (i - 1) \in DOMAIN steps /\ Truthy(steps[i - 1].output)
        IN  /\ \A p \in Keys, key \in Keys :
                  LET prev == OneSpecStep(ArgSpec(p, "previous", 0, key, Undefined))
                      rel == OneSpecStep(ArgSpec(p, "index", -1, key, Undefined))
                      resPrev == buildJobArgs(prev, OneArgJob(p), OptionsAt(c))
                      resRel == buildJobArgs(rel, OneArgJob(p), OptionsAt(c))
                      asgPrev == assignedArgsOf(prev, OneArgJob(p), OptionsAt(c))
                      asgRel == assignedArgsOf(rel, OneArgJob(p), OptionsAt(c))
                  IN  /\ resPrev = resRel
                      /\ asgPrev = asgRel
                      /\ IF exists
                           THEN /\ asgPrev = <<p>>
                                /\ Get(resPrev, p) = Get(steps[i - 1].output.props, key)
                           ELSE asgPrev = <<>>
            /\ frame[c].args =
                  buildJobArgs(AsRelative(frame[c].jobLine.steps[i + 1]),
                               frame[c].job, OptionsAt(c))

\* step 2 took its argument from the output of step 1 while step 0 had
\* no output
C18_Witness ==
    \E c \in Calls :
        /\ frame[c].pc = "awaiting"
        /\ frame[c].index = 2
        /\ ~Truthy(Entries(c)[0].output)
        /\ Truthy(Entries(c)[1].output)
        /\ frame[c].jobLine.steps[3].hasArgs
        /\ frame[c].args["a"] = Entries(c)[1].output.props["a"]
        /\ frame[c].args["a"] # frame[c].externalArgs["a"]

\* the call c as its caller made it (calls in flight together are made
\* with a JobLine and with arguments)
RefOf(c) == [byName |-> FALSE, name |-> "", jobLine |-> frame[c].jobLine]
OptionsOf(c) ==
    [present |-> TRUE, hasArgs |-> TRUE, args |-> passed[c],
     previousJobLineJournal |-> trace[c].previousJobLineJournal]

\* a call run to its end with no other call: contexts on a heap `objects`
\* of its own
RECURSIVE AloneRun(_, _)
AloneRun(g, objects) ==
    IF g.pc # "awaiting" THEN g
    ELSE LET h == IF g.jobContext > Len(objects)
                     THEN Append(objects, EmptyObj) ELSE objects
             outcome == Executor(g.job, h[g.jobContext], g.args)
             written == [h EXCEPT ![g.jobContext] = Merge(@, outcome.write)]
         IN  AloneRun(Resume(g, outcome, jobs, written), written)

Alone(c) ==
    AloneRun(executeJobLine(RefOf(c), OptionsOf(c), jobLines, jobs, <<>>), <<>>)

\* the context objects the executors of call c were given
ContextsOf(c) == { Invoked(c)[n].jobContext : n \in 1..Len(Invoked(c)) }

\* C19: calls in flight together are given context objects of their own,
\* and a call that ended has ended as it does alone, with the same journal
\* (executors that depend only on their context and arguments, no
\* registration during the calls).
C19_CallsInFlightAreIndependent ==
    /\ \A c, d \in Calls : c # d => ContextsOf(c) \cap ContextsOf(d) = {}
    /\ \A c \in Calls :
          frame[c].pc \in {"returned", "thrown"} =>
              /\ Alone(c).pc = frame[c].pc
              /\ Alone(c).jobLineJournal = frame[c].jobLineJournal

\* two calls returned after their executors ran in turns
C19_Witness ==
    \E c, d \in Calls :
        /\ c # d
        /\ Returned(c) /\ Returned(d)
        /\ Len(Invoked(c)) = 2 /\ Len(Invoked(d)) = 2
        /\ Invoked(c)[1].jobContext < Invoked(d)[1].jobContext
        /\ Invoked(d)[1].jobContext < Invoked(c)[2].jobContext
        /\ Invoked(c)[2].jobContext < Invoked(d)[2].jobContext

\* the job of every step of the line of call c is registered
AllJobsRegistered(c) ==
    \A n \in 1..StepCount(c) : frame[c].jobLine.steps[n].name \in DOMAIN jobs

\* C20: when the executors all complete, a call that resolved its line and
\* its arguments and whose steps all have registered jobs returns its
\* journal in the end, and no call invokes more executors than its line has
\* steps.
C20_CallsReturn ==
    /\ [](\A c \in Calls : InLoop(c) => Len(Invoked(c)) <= StepCount(c))
    /\ \A c \in Calls :
          (frame[c].pc = "awaiting" /\ AllJobsRegistered(c)) ~> Returned(c)

\* a call returned after it invoked an executor for each of its steps
C20_Witness ==
    \E c \in Calls :
        /\ Returned(c)
        /\ AllJobsRegistered(c)
        /\ StepCount(c) >= 2
        /\ Len(Invoked(c)) = StepCount(c)
        /\ Len(Settled(c)) = StepCount(c)

====
